---- MODULE Spec2Model ----
(***************************************************************************)
(* A model of privatemail's Lambda handler (src/src/lib.rs) and of its     *)
(* configuration (src/src/config.rs).                                      *)
(*                                                                         *)
(* Text that the code searches or splits (the sender address, BLACK_LIST) *)
(* is a sequence of one-character strings; text that the code only copies *)
(* or compares for equality is a TLA+ string.  Option<T> is a sequence of *)
(* length at most one: None is <<>> and Some(x) is <<x>>.                  *)
(***************************************************************************)
EXTENDS Integers, Sequences, FiniteSets, TLC

VARIABLES env, host, logger_set, subscriber_set, TRACING, new_args,
          pc, path, event, message, sns_message, email_config,
          original_sender, subject, msg_body, matched,
          ses_email_message, sent, ses_response, result

vars == <<env, host, logger_set, subscriber_set, TRACING, new_args,
          pc, path, event, message, sns_message, email_config,
          original_sender, subject, msg_body, matched,
          ses_email_message, sent, ses_response, result>>

\* env is the process environment; host says whether the process had a global
\* logger and a global subscriber before the handler first ran.  path is the
\* history of an invocation: the steps it has taken, in order.  new_args holds
\* the arguments of a call of PrivatEmailConfig::new.
globals == <<env, host, logger_set, subscriber_set, new_args>>

----------------------------------------------------------------------------
(* Bounds of the model                                                     *)

MaxAddrLen == 2
MaxBlackListLen == 3
MaxParts == 2
NumInvocations == 2

Procs == 1..NumInvocations

None == <<>>
Some(x) == <<x>>

AddrAlphabet == {"a", "b"}
EnvAlphabet == {"a", "b", ",", " "}

RECURSIVE StringsUpTo(_, _)
StringsUpTo(alphabet, n) ==
    IF n = 0 THEN {<<>>}
    ELSE LET shorter == StringsUpTo(alphabet, n - 1)
         IN shorter \cup {Append(s, c) : s \in {t \in shorter : Len(t) = n - 1},
                                         c \in alphabet}

----------------------------------------------------------------------------
(* Strings: str::contains, str::split, str::replace                        *)

\* str::contains(pat): pat occurs as a contiguous substring (the empty
\* pattern occurs in every string).
Contains(s, pat) ==
    \E i \in 0..(Len(s) - Len(pat)) : SubSeq(s, i + 1, i + Len(pat)) = pat

\* str::split(','): the pieces between the commas, in order; n commas give
\* n + 1 pieces and the empty string gives one empty piece.
RECURSIVE Split(_, _)
Split(s, sep) ==
    IF \A i \in 1..Len(s) : s[i] # sep THEN <<s>>
    ELSE LET k == CHOOSE i \in 1..Len(s) :
                      s[i] = sep /\ \A j \in 1..(i - 1) : s[j] # sep
         IN <<SubSeq(s, 1, k - 1)>> \o Split(SubSeq(s, k + 1, Len(s)), sep)

\* Variant: x.trim(), only the leading and trailing whitespace removed.
IsWhite(c) == c \in {" ", "\t"}
RECURSIVE TrimStart(_)
TrimStart(x) == IF x # <<>> /\ IsWhite(Head(x)) THEN TrimStart(Tail(x)) ELSE x
RECURSIVE TrimEnd(_)
TrimEnd(x) ==
    IF x # <<>> /\ IsWhite(x[Len(x)]) THEN TrimEnd(SubSeq(x, 1, Len(x) - 1)) ELSE x
RemoveSpacesTrimOnly(x) == TrimEnd(TrimStart(x))

\* x.replace(' ', ""): every space removed.
IsNotSpace(c) == c # " "
RemoveSpaces(x) == SelectSeq(x, IsNotSpace)

\* b_list.split(',').map(|x| x.replace(' ', "")).collect()
ParseBlackList(b_list) ==
    LET pieces == Split(b_list, ",")
    IN [i \in 1..Len(pieces) |-> RemoveSpaces(pieces[i])]

----------------------------------------------------------------------------
(* PrivatEmailConfig                                                       *)

PrivatEmailConfig(from_email, to_email, black_list) ==
    [from_email |-> from_email, to_email |-> to_email, black_list |-> black_list]

NoConfig == PrivatEmailConfig("", "", None)

\* env::var("BLACK_LIST").unwrap_or_default()
UnwrapOrDefault(opt) == IF opt = None THEN <<>> ELSE opt[1]

\* PrivatEmailConfig::new_from_env, defined when FROM_EMAIL and TO_EMAIL are set
\* (it panics otherwise, see EnvPanics).
NewFromEnv(e) ==
    PrivatEmailConfig(e.FROM_EMAIL[1], e.TO_EMAIL[1],
                      Some(ParseBlackList(UnwrapOrDefault(e.BLACK_LIST))))

EnvPanics(e) == e.FROM_EMAIL = None \/ e.TO_EMAIL = None

\* PrivatEmailConfig::new(from_email, to_email, black_list)
New(from_email, to_email, black_list) ==
    PrivatEmailConfig(from_email, to_email, Some(ParseBlackList(black_list)))

\* The arguments of PrivatEmailConfig::new; the tab is a whitespace character
\* that is not a space.
ConfigAlphabet == EnvAlphabet \cup {"\t"}

NewArgs ==
    [from_email : {"test_from", "hello@nyah.dev"},
     to_email   : {"test_to"},
     black_list : StringsUpTo(ConfigAlphabet, MaxBlackListLen)]

NoArgs == [from_email |-> "", to_email |-> "", black_list |-> <<"-">>]

Environments ==
    [FROM_EMAIL : {None, Some("from@relay")},
     TO_EMAIL   : {None, Some("to@inbox")},
     BLACK_LIST : {None} \cup {Some(s) : s \in StringsUpTo(EnvAlphabet, MaxBlackListLen)}]

----------------------------------------------------------------------------
(* The inbound notification                                                *)

Missing == "<missing>"
Statuses == {"PASS", "FAIL", "GRAY", "PROCESSING_FAILED", "fail", ""}

\* What mailparse::parse_mail makes of the content: an error, or a tree with
\* the root's raw body and the top-level subparts.  bytes is a raw body (part i
\* holds the single byte i, so that parts differ); body_ok says whether
\* get_body_raw can decode the part's transfer encoding.
Part(i, ok) == [bytes |-> <<i>>, body_ok |-> ok]

RootBytes == <<255>>

Unparseable == [parse_ok |-> FALSE, bytes |-> <<>>, subparts |-> <<>>]
Parsed(n, ok1) ==
    [parse_ok |-> TRUE,
     bytes |-> RootBytes,
     subparts |-> [i \in 1..n |-> Part(i - 1, IF i = 2 THEN ok1 ELSE TRUE)]]

Contents ==
    {Unparseable} \cup {Parsed(n, TRUE) : n \in 0..MaxParts}
                  \cup {Parsed(n, FALSE) : n \in 2..MaxParts}

\* The JSON text of the SNS Message field; a verdict that is absent (or has
\* no status) is Missing.  cc is the cc list of commonHeaders, which
\* CommonHeaders keeps in its flattened `other` map; these messages have none.
Messages ==
    [spam_status  : Statuses \cup {Missing},
     virus_status : Statuses \cup {Missing},
     return_path  : StringsUpTo(AddrAlphabet, MaxAddrLen),
     subject      : {"Hello"},
     cc           : {None},
     content      : Contents]

\* Messages with and without a cc list.
CcValues == {None, Some(<<"cc@example">>), Some(<<"cc@example", "other@example">>)}

CcMessages ==
    [spam_status  : {"PASS", "FAIL"},
     virus_status : {"PASS"},
     return_path  : {<<"a">>, <<"b">>},
     subject      : {"Hello"},
     cc           : CcValues,
     content      : {Unparseable, Parsed(2, TRUE)}]

NoMsg == [spam_status |-> Missing, virus_status |-> Missing, return_path |-> <<>>,
          subject |-> "", cc |-> None, content |-> Unparseable]

\* The shapes of the event Value that the handler tells apart before it
\* deserializes the message.
EventKinds == {"not_object", "no_sns", "no_message", "bad_json", "ok"}

\* Variant: an absent verdict deserializes to its Default (as #[serde(default)]
\* would make it).
DeserializesDefaulting(m) == TRUE

\* serde_json::from_str::<EmailReceiptNotification>: every field of Receipt and
\* of Verdict is required.
Deserializes(m) == m.spam_status # Missing /\ m.virus_status # Missing

----------------------------------------------------------------------------
(* Results of the handler                                                  *)

NoResult == [tag |-> "None", status_code |-> 0, body |-> <<>>]

\* LambdaResponse::new(status_code, body): the body is JSON-encoded.
ToJsonString(body) == <<"json">> \o body
LambdaResponse(status_code, body) ==
    [tag |-> "Ok", status_code |-> status_code, body |-> ToJsonString(body)]

Err(e) == [tag |-> "Err", status_code |-> 0, body |-> <<e>>]
Panic(msg) == [tag |-> "Panic", status_code |-> 0, body |-> <<msg>>]

SpamMsg == <<"Message contains spam or virus, skipping!">>
BlackListMsg(email) == <<"Message is from blacklisted email: ">> \o email

\* charset::decode_latin1: each byte becomes the character of the same code.
DecodeLatin1(bytes) == [k \in DOMAIN bytes |-> [char |-> bytes[k]]]

NoRequest == [to_addresses |-> None, cc_addresses |-> None, bcc_addresses |-> None,
              html |-> None, text |-> None, subject |-> "",
              reply_to_addresses |-> None, source |-> ""]

SesResponses == {[ok |-> TRUE, message_id |-> "id-1"],
                 [ok |-> FALSE, message_id |-> "MessageRejected"]}
NoResponse == [ok |-> FALSE, message_id |-> ""]

----------------------------------------------------------------------------
(* The tracing stack behind lazy_static                                    *)

\* init_subscriber: LogTracer::init().expect(..) and then
\* set_global_default(subscriber).expect(..); l and s say whether the process
\* already has a global logger and a global subscriber.
InitSubscriber(l, s) ==
    IF l THEN [panic |-> TRUE, logger_set |-> l, subscriber_set |-> s]
    ELSE IF s THEN [panic |-> TRUE, logger_set |-> TRUE, subscriber_set |-> s]
    ELSE [panic |-> FALSE, logger_set |-> TRUE, subscriber_set |-> TRUE]

\* Variant: init_subscriber called on every invocation, with no Once.
LazyInitializeNoOnce(t, l, s) ==
    LET i == InitSubscriber(l, s)
    IN [panic |-> i.panic, TRACING |-> IF i.panic THEN "poisoned" ELSE "done",
        logger_set |-> i.logger_set, subscriber_set |-> i.subscriber_set]

\* lazy_static::initialize(&TRACING): the initializer runs under a Once, at most
\* one caller at a time; a panic in it poisons the Once for every later caller.
LazyInitialize(t, l, s) ==
    IF t = "done" THEN [panic |-> FALSE, TRACING |-> t, logger_set |-> l, subscriber_set |-> s]
    ELSE IF t = "poisoned"
    THEN [panic |-> TRUE, TRACING |-> t, logger_set |-> l, subscriber_set |-> s]
    ELSE LET i == InitSubscriber(l, s)
         IN [panic |-> i.panic, TRACING |-> IF i.panic THEN "poisoned" ELSE "done",
             logger_set |-> i.logger_set, subscriber_set |-> i.subscriber_set]

----------------------------------------------------------------------------
InitState(envs, args) ==
    /\ env \in envs
    /\ host \in [logger : BOOLEAN, subscriber : BOOLEAN]
    /\ logger_set = host.logger
    /\ subscriber_set = host.subscriber
    /\ TRACING = "uninit"
    /\ new_args \in args
    /\ pc = [p \in Procs |-> "idle"]
    /\ path = [p \in Procs |-> <<>>]
    /\ event = [p \in Procs |-> "none"]
    /\ message = [p \in Procs |-> NoMsg]
    /\ sns_message = [p \in Procs |-> NoMsg]
    /\ email_config = [p \in Procs |-> NoConfig]
    /\ original_sender = [p \in Procs |-> <<>>]
    /\ subject = [p \in Procs |-> ""]
    /\ msg_body = [p \in Procs |-> <<>>]
    /\ matched = [p \in Procs |-> None]
    /\ ses_email_message = [p \in Procs |-> NoRequest]
    /\ sent = [p \in Procs |-> <<>>]
    /\ ses_response = [p \in Procs |-> NoResponse]
    /\ result = [p \in Procs |-> NoResult]

\* The handler's process: no call of PrivatEmailConfig::new.
InitWith(envs) == InitState(envs, {NoArgs})

Init == InitWith(Environments)

locals == <<original_sender, subject, msg_body, matched, ses_email_message, sent,
            ses_response>>

\* lib.rs 187-211: what stops the handler before it deserializes the Message
\* (NoResult when nothing does), in the order of the code, with the info level
\* enabled (the filter of line 175).
Prologue(tracing_panic, kind, e) ==
    IF tracing_panic THEN Panic("Failed to initialise tracing")
    ELSE IF kind = "not_object" THEN Panic("Missing event object")
    ELSE IF e.FROM_EMAIL = None THEN Panic("Invalid FROM_EMAIL")
    ELSE IF e.TO_EMAIL = None THEN Panic("Invalid TO_EMAIL")
    ELSE IF kind = "no_sns" THEN Panic("Missing sns payload")
    ELSE IF kind = "no_message" THEN Panic("Missing Message field")
    ELSE NoResult

\* lib.rs 208-212: serde_json::from_str(..)? on the Message text.
FromStr(kind, m) ==
    IF kind = "bad_json" \/ ~Deserializes(m) THEN None ELSE Some(m)

\* lib.rs 182-212: the call, the tracing stack, the configuration, the SNS payload
\* and the deserialization of its Message.
Invoke(self, msgs) ==
    /\ pc[self] = "idle"
    /\ \E kind \in EventKinds :
         LET t == LazyInitialize(TRACING, logger_set, subscriber_set)
             early == Prologue(t.panic, kind, env)
             configured == ~t.panic /\ kind # "not_object" /\ ~EnvPanics(env)
         IN /\ TRACING' = t.TRACING
            /\ logger_set' = t.logger_set
            /\ subscriber_set' = t.subscriber_set
            /\ event' = [event EXCEPT ![self] = kind]
            /\ email_config' = [email_config EXCEPT
                                  ![self] = IF configured THEN NewFromEnv(env) ELSE @]
            /\ IF early # NoResult
               THEN /\ result' = [result EXCEPT ![self] = early]
                    /\ pc' = [pc EXCEPT ![self] = "done"]
                    /\ UNCHANGED <<message, sns_message>>
               ELSE \E m \in IF kind = "ok" THEN msgs ELSE {NoMsg} :
                      /\ message' = [message EXCEPT ![self] = m]
                      /\ IF FromStr(kind, m) = None
                         THEN /\ result' = [result EXCEPT
                                               ![self] = Err("serde_json::Error")]
                              /\ pc' = [pc EXCEPT ![self] = "done"]
                              /\ UNCHANGED sns_message
                         ELSE /\ sns_message' = [sns_message EXCEPT
                                                    ![self] = FromStr(kind, m)[1]]
                              /\ pc' = [pc EXCEPT ![self] = "verdict"]
                              /\ UNCHANGED result
    /\ path' = [path EXCEPT ![self] = Append(@, "Invoke")]
    /\ UNCHANGED <<env, host, new_args, locals>>

\* Variant: only the spam verdict is looked at.
VerdictFailsSpamOnly(m) == m.spam_status = "FAIL"

\* Variant: the status is compared without regard to case.
VerdictFailsIgnoreCase(m) ==
    m.spam_status \in {"FAIL", "fail"} \/ m.virus_status \in {"FAIL", "fail"}

\* lib.rs 214-222: skip spam messages.
VerdictFails(m) == m.spam_status = "FAIL" \/ m.virus_status = "FAIL"

VerdictGate(self) ==
    /\ pc[self] = "verdict"
    /\ IF VerdictFails(sns_message[self])
       THEN /\ result' = [result EXCEPT ![self] = LambdaResponse(200, SpamMsg)]
            /\ pc' = [pc EXCEPT ![self] = "done"]
       ELSE /\ pc' = [pc EXCEPT ![self] = "parse"]
            /\ UNCHANGED result
    /\ path' = [path EXCEPT ![self] = Append(@, "VerdictGate")]
    /\ UNCHANGED <<globals, TRACING, event, message, sns_message, email_config, locals>>

\* lib.rs 229: parsed_mail.subparts[1] (the second top-level part).
HtmlPartIndex == 2

\* lib.rs 228-230: Some(body) when the content parses, has a second top-level
\* part and that part's body decodes; None where an unwrap or the index panics.
ExtractBody(content) ==
    IF ~content.parse_ok THEN None
    ELSE IF Len(content.subparts) < HtmlPartIndex THEN None
    ELSE IF ~content.subparts[HtmlPartIndex].body_ok THEN None
    ELSE Some(DecodeLatin1(content.subparts[HtmlPartIndex].bytes))

ExtractPanic(content) ==
    IF ~content.parse_ok THEN Panic("unwrap on MailParseError (parse_mail)")
    ELSE IF Len(content.subparts) < HtmlPartIndex THEN Panic("index out of bounds")
    ELSE Panic("unwrap on MailParseError (get_body_raw)")

\* lib.rs 224-231: take the sender and the subject, parse the content and
\* extract the body.
ParseMail(self) ==
    /\ pc[self] = "parse"
    /\ original_sender' = [original_sender EXCEPT ![self] = sns_message[self].return_path]
    /\ subject' = [subject EXCEPT ![self] = sns_message[self].subject]
    /\ LET body == ExtractBody(sns_message[self].content)
       IN IF body = None
          THEN /\ result' = [result EXCEPT
                                ![self] = ExtractPanic(sns_message[self].content)]
               /\ pc' = [pc EXCEPT ![self] = "done"]
               /\ UNCHANGED msg_body
          ELSE /\ msg_body' = [msg_body EXCEPT ![self] = body[1]]
               /\ pc' = [pc EXCEPT ![self] = "blacklist"]
               /\ UNCHANGED result
    /\ path' = [path EXCEPT ![self] = Append(@, "ParseMail")]
    /\ UNCHANGED <<globals, TRACING, event, message, sns_message, email_config, matched,
                   ses_email_message, sent, ses_response>>

\* Variant: no test for the empty rule.
RuleMatchesEmptyToo(sender, email) == Contains(sender, email)

\* lib.rs 237-238: the test of one rule.
RuleMatches(sender, email) == email # <<>> /\ Contains(sender, email)

\* lib.rs 234-246: the first rule of the list, in order, that matches.
FirstMatch(sender, black_list) ==
    LET hits == {i \in 1..Len(black_list) : RuleMatches(sender, black_list[i])}
    IN IF hits = {} THEN None
       ELSE Some(black_list[CHOOSE i \in hits : \A j \in hits : i <= j])

\* lib.rs 233-246: skip mail if it's from blacklisted email.
BlackListGate(self) ==
    /\ pc[self] = "blacklist"
    /\ IF email_config[self].black_list = None
       THEN /\ result' = [result EXCEPT ![self] = Panic("Missing black list")]
            /\ pc' = [pc EXCEPT ![self] = "done"]
            /\ UNCHANGED matched
       ELSE LET hit == FirstMatch(original_sender[self], email_config[self].black_list[1])
            IN /\ matched' = [matched EXCEPT ![self] = hit]
               /\ IF hit # None
                  THEN /\ result' = [result EXCEPT
                                        ![self] = LambdaResponse(200, BlackListMsg(hit[1]))]
                       /\ pc' = [pc EXCEPT ![self] = "done"]
                  ELSE /\ pc' = [pc EXCEPT ![self] = "build"]
                       /\ UNCHANGED result
    /\ path' = [path EXCEPT ![self] = Append(@, "BlackListGate")]
    /\ UNCHANGED <<globals, TRACING, event, message, sns_message, email_config, original_sender,
                   subject, msg_body, ses_email_message, sent, ses_response>>

\* lib.rs 248-271: the SendEmailRequest.
SendEmailRequest(config, sender, subj, body) ==
    [to_addresses |-> Some(<<config.to_email>>),
     cc_addresses |-> None,
     bcc_addresses |-> None,
     html |-> Some(body),
     text |-> None,
     subject |-> subj,
     reply_to_addresses |-> Some(<<sender>>),
     source |-> config.from_email]

BuildRequest(self) ==
    /\ pc[self] = "build"
    /\ ses_email_message' = [ses_email_message EXCEPT ![self] =
           SendEmailRequest(email_config[self], original_sender[self], subject[self],
                            msg_body[self])]
    /\ pc' = [pc EXCEPT ![self] = "send"]
    /\ path' = [path EXCEPT ![self] = Append(@, "BuildRequest")]
    /\ UNCHANGED <<globals, TRACING, event, message, sns_message, email_config, original_sender,
                   subject, msg_body, matched, sent, ses_response, result>>

\* lib.rs 273: ses_client.send_email(ses_email_message), the request leaves.
SendEmail(self) ==
    /\ pc[self] = "send"
    /\ sent' = [sent EXCEPT ![self] = Append(@, ses_email_message[self])]
    /\ pc' = [pc EXCEPT ![self] = "await"]
    /\ path' = [path EXCEPT ![self] = Append(@, "SendEmail")]
    /\ UNCHANGED <<globals, TRACING, event, message, sns_message, email_config, original_sender,
                   subject, msg_body, matched, ses_email_message, ses_response, result>>

\* lib.rs 273-282: what the handler makes of the provider's answer.
SendOutcome(r) ==
    IF r.ok THEN LambdaResponse(200, <<r.message_id>>)
    ELSE Err(r.message_id)

\* Variant: a refused send is tried again (once more).
SendEmailReturnRetry(self) ==
    /\ pc[self] = "await"
    /\ \E r \in SesResponses :
         /\ ses_response' = [ses_response EXCEPT ![self] = r]
         /\ IF ~r.ok /\ Len(sent[self]) < 2
            THEN /\ pc' = [pc EXCEPT ![self] = "send"]
                 /\ UNCHANGED result
            ELSE /\ pc' = [pc EXCEPT ![self] = "done"]
                 /\ result' = [result EXCEPT ![self] = SendOutcome(r)]
    /\ path' = [path EXCEPT ![self] = Append(@, "SendEmailReturn")]
    /\ UNCHANGED <<globals, TRACING, event, message, sns_message, email_config,
                   original_sender, subject, msg_body, matched, ses_email_message, sent>>

\* lib.rs 273-282: .await returns with the provider's answer.
SendEmailReturn(self) ==
    /\ pc[self] = "await"
    /\ \E r \in SesResponses :
         /\ ses_response' = [ses_response EXCEPT ![self] = r]
         /\ result' = [result EXCEPT ![self] = SendOutcome(r)]
    /\ pc' = [pc EXCEPT ![self] = "done"]
    /\ path' = [path EXCEPT ![self] = Append(@, "SendEmailReturn")]
    /\ UNCHANGED <<globals, TRACING, event, message, sns_message, email_config, original_sender,
                   subject, msg_body, matched, ses_email_message, sent>>

Step(self, msgs) ==
    \/ Invoke(self, msgs)
    \/ VerdictGate(self)
    \/ ParseMail(self)
    \/ BlackListGate(self)
    \/ BuildRequest(self)
    \/ SendEmail(self)
    \/ SendEmailReturn(self)

\* One invocation of the handler.
Next == Step(1, Messages)

Spec == Init /\ [][Next]_vars

----------------------------------------------------------------------------
(* Concurrent and repeated invocations in one process                      *)

\* The handler has returned (or unwound); the runtime may call it again.
Return(self) ==
    /\ pc[self] = "done"
    /\ pc' = [pc EXCEPT ![self] = "idle"]
    /\ path' = [path EXCEPT ![self] = <<>>]
    /\ event' = [event EXCEPT ![self] = "none"]
    /\ message' = [message EXCEPT ![self] = NoMsg]
    /\ sns_message' = [sns_message EXCEPT ![self] = NoMsg]
    /\ email_config' = [email_config EXCEPT ![self] = NoConfig]
    /\ original_sender' = [original_sender EXCEPT ![self] = <<>>]
    /\ subject' = [subject EXCEPT ![self] = ""]
    /\ msg_body' = [msg_body EXCEPT ![self] = <<>>]
    /\ matched' = [matched EXCEPT ![self] = None]
    /\ ses_email_message' = [ses_email_message EXCEPT ![self] = NoRequest]
    /\ sent' = [sent EXCEPT ![self] = <<>>]
    /\ ses_response' = [ses_response EXCEPT ![self] = NoResponse]
    /\ result' = [result EXCEPT ![self] = NoResult]
    /\ UNCHANGED <<globals, TRACING>>

ConcEnvironments ==
    {e \in Environments : /\ ~EnvPanics(e)
                          /\ e.BLACK_LIST \in {None, Some(<<"a">>)}}

ConcMessages ==
    {m \in Messages : /\ m.spam_status \in {"PASS", "FAIL", Missing}
                      /\ m.virus_status \in {"PASS", "FAIL"}
                      /\ m.return_path \in {<<"a">>, <<"b">>}
                      /\ m.content \in {Unparseable, Parsed(0, TRUE), Parsed(2, TRUE)}}

InitConc == InitWith(ConcEnvironments)

NextConc == \E self \in Procs : Step(self, ConcMessages) \/ Return(self)

SpecConc == InitConc /\ [][NextConc]_vars

----------------------------------------------------------------------------
(* One invocation for notifications that may carry a cc list               *)

NextCc == Step(1, CcMessages)

SpecCc == InitConc /\ [][NextCc]_vars

----------------------------------------------------------------------------
(* The constructors of PrivatEmailConfig, called on their own              *)

\* config.rs 66-80: a call of PrivatEmailConfig::new with the arguments new_args.
CallNew(self) ==
    /\ pc[self] = "idle"
    /\ new_args # NoArgs
    /\ email_config' = [email_config EXCEPT ![self] =
           New(new_args.from_email, new_args.to_email, new_args.black_list)]
    /\ pc' = [pc EXCEPT ![self] = "done"]
    /\ path' = [path EXCEPT ![self] = Append(@, "New")]
    /\ UNCHANGED <<globals, TRACING, event, message, sns_message, locals, result>>

\* config.rs 51-63: a call of PrivatEmailConfig::new_from_env in the environment env.
CallNewFromEnv(self) ==
    /\ pc[self] = "idle"
    /\ new_args = NoArgs
    /\ IF EnvPanics(env)
       THEN /\ result' = [result EXCEPT ![self] =
                   Panic(IF env.FROM_EMAIL = None THEN "Invalid FROM_EMAIL"
                         ELSE "Invalid TO_EMAIL")]
            /\ UNCHANGED email_config
       ELSE /\ email_config' = [email_config EXCEPT ![self] = NewFromEnv(env)]
            /\ UNCHANGED result
    /\ pc' = [pc EXCEPT ![self] = "done"]
    /\ path' = [path EXCEPT ![self] = Append(@, "NewFromEnv")]
    /\ UNCHANGED <<globals, TRACING, event, message, sns_message, locals>>

\* The inputs of the call: an environment for new_from_env, or the arguments
\* of new.
InitConfig ==
    \/ InitWith(Environments)
    \/ InitState({[FROM_EMAIL |-> None, TO_EMAIL |-> None, BLACK_LIST |-> None]}, NewArgs)

NextConfig == CallNew(1) \/ CallNewFromEnv(1)

SpecConfig == InitConfig /\ [][NextConfig]_vars

----------------------------------------------------------------------------
(* The handler as a function of its inputs                                 *)

\* lib.rs 214-283: the result of the handler once the configuration is read and
\* the notification deserialized, given the provider's answer r to a send.
HandlerResult(config, m, r) ==
    IF VerdictFails(m) THEN LambdaResponse(200, SpamMsg)
    ELSE IF ExtractBody(m.content) = None THEN ExtractPanic(m.content)
    ELSE IF config.black_list = None THEN Panic("Missing black list")
    ELSE LET hit == FirstMatch(m.return_path, config.black_list[1])
         IN IF hit # None THEN LambdaResponse(200, BlackListMsg(hit[1]))
            ELSE SendOutcome(r)

\* lib.rs 182-283: the result of one invocation that runs alone in a process
\* whose environment is e and whose logging state is h.
RunAlone(kind, m, e, h, r) ==
    LET t == LazyInitialize("uninit", h.logger, h.subscriber)
        early == Prologue(t.panic, kind, e)
    IN IF early # NoResult THEN early
       ELSE IF FromStr(kind, m) = None THEN Err("serde_json::Error")
       ELSE HandlerResult(NewFromEnv(e), m, r)

----------------------------------------------------------------------------
(* Properties                                                              *)

Took(p, step) == \E i \in DOMAIN path[p] : path[p][i] = step

Deserialized(p) == sns_message[p] # NoMsg

HasFailVerdict(m) == m.spam_status = "FAIL" \/ m.virus_status = "FAIL"

SpamSkipResponse ==
    [tag |-> "Ok", status_code |-> 200,
     body |-> <<"json", "Message contains spam or virus, skipping!">>]

\* The non-empty rules of the configured blacklist that the sender contains.
MatchingRules(p) ==
    IF email_config[p].black_list = None THEN {}
    ELSE LET bl == email_config[p].black_list[1]
         IN {i \in 1..Len(bl) : bl[i] # <<>> /\ Contains(sns_message[p].return_path, bl[i])}

PassedBothGates(p) ==
    /\ Deserialized(p)
    /\ ~HasFailVerdict(sns_message[p])
    /\ email_config[p].black_list # None
    /\ MatchingRules(p) = {}

\* C1: a notification whose spam or virus status is "FAIL" ends in the
\* spam/virus skip response (Ok, 200); no send is attempted and neither the
\* content nor the blacklist is looked at, whatever they are.
C1_FailVerdictSkips ==
    \A p \in Procs :
        (Deserialized(p) /\ HasFailVerdict(sns_message[p])) =>
            /\ pc[p] \in {"verdict", "done"}
            /\ sent[p] = <<>>
            /\ ~Took(p, "ParseMail")
            /\ ~Took(p, "BlackListGate")
            /\ matched[p] = None
            /\ pc[p] = "done" => result[p] = SpamSkipResponse

\* C1 witness: a virus FAIL from a blacklisted sender with unparseable
\* content has been skipped as spam/virus.
C1_Witness ==
    \E p \in Procs :
        /\ pc[p] = "done"
        /\ sns_message[p].virus_status = "FAIL"
        /\ sns_message[p].spam_status = "PASS"
        /\ sns_message[p].content = Unparseable
        /\ MatchingRules(p) # {}
        /\ result[p] = SpamSkipResponse

\* C2 (as claimed): every notification that passes the verdict gate and whose
\* sender contains a non-empty rule ends in the blacklist skip response naming
\* the first such rule, with no send, whatever its content.
C2_BlacklistedAlwaysSkipped ==
    \A p \in Procs :
        (/\ pc[p] = "done"
         /\ Deserialized(p)
         /\ ~HasFailVerdict(sns_message[p])
         /\ MatchingRules(p) # {}) =>
            LET bl == email_config[p].black_list[1]
                first == CHOOSE i \in MatchingRules(p) : \A j \in MatchingRules(p) : i <= j
            IN /\ sent[p] = <<>>
               /\ result[p] = [tag |-> "Ok", status_code |-> 200,
                                body |-> <<"json", "Message is from blacklisted email: ">>
                                         \o bl[first]]

\* C3 (as claimed): every notification that passes both gates produces exactly
\* one forward request, to the configured to_email, from the configured
\* from_email.
C3_PassingBothGatesForwards ==
    \A p \in Procs :
        (pc[p] = "done" /\ PassedBothGates(p)) =>
            /\ Len(sent[p]) = 1
            /\ sent[p][1].to_addresses = Some(<<env.TO_EMAIL[1]>>)
            /\ sent[p][1].source = env.FROM_EMAIL[1]

\* C4: once the verdict gate has run, the notification is rejected there if
\* and only if its spam or virus status is exactly "FAIL"; with any other
\* pair of statuses it goes on to the steps that lead to the blacklist gate.
C4_OnlyExactFailRejects ==
    \A p \in Procs :
        Took(p, "VerdictGate") =>
            LET m == sns_message[p]
                rejected == /\ pc[p] = "done"
                            /\ path[p] = <<"Invoke", "VerdictGate">>
                            /\ result[p] = SpamSkipResponse
            IN /\ rejected <=> (m.spam_status = "FAIL" \/ m.virus_status = "FAIL")
               /\ ~rejected => (pc[p] = "parse" \/ Took(p, "ParseMail"))

\* C4 witness: statuses "fail" and "GRAY" have reached the blacklist gate.
C4_Witness ==
    \E p \in Procs :
        /\ sns_message[p].spam_status = "fail"
        /\ sns_message[p].virus_status = "GRAY"
        /\ Took(p, "BlackListGate")

AllRulesEmpty(p) ==
    /\ email_config[p].black_list # None
    /\ \A i \in 1..Len(email_config[p].black_list[1]) :
           email_config[p].black_list[1][i] = <<>>

\* C5: an empty rule is never the matched rule, and with a blacklist of empty
\* rules only the blacklist gate lets every sender through: the invocation
\* ends as it would with the empty blacklist.
C5_EmptyRulesNeverMatch ==
    \A p \in Procs :
        /\ matched[p] # Some(<<>>)
        /\ (Took(p, "BlackListGate") /\ AllRulesEmpty(p)) =>
              /\ matched[p] = None
              /\ pc[p] = "build" \/ Took(p, "BuildRequest")
              /\ pc[p] = "done" =>
                    result[p] = HandlerResult([email_config[p] EXCEPT !.black_list = Some(<<>>)],
                                              sns_message[p], ses_response[p])

\* C5 witness: with BLACK_LIST unset the blacklist is [""], and a notification
\* with a non-empty sender has been forwarded.
C5_Witness ==
    \E p \in Procs :
        /\ env.BLACK_LIST = None
        /\ email_config[p].black_list = Some(<< <<>> >>)
        /\ sns_message[p].return_path # <<>>
        /\ pc[p] = "done"
        /\ Len(sent[p]) = 1
        /\ result[p].tag = "Ok"

\* C6 (as claimed): after both gates, a message with at least two top-level
\* parts is forwarded with part index 1 as its HTML body, and a flat message
\* is forwarded with its whole body as both the HTML and the text body.
C6_BodyExtraction ==
    \A p \in Procs :
        (pc[p] = "done" /\ PassedBothGates(p) /\ sns_message[p].content.parse_ok) =>
            LET c == sns_message[p].content
            IN /\ (Len(c.subparts) >= 2 /\ c.subparts[2].body_ok) =>
                     /\ Len(sent[p]) = 1
                     /\ sent[p][1].html = Some(DecodeLatin1(c.subparts[2].bytes))
               /\ Len(c.subparts) = 0 =>
                     /\ Len(sent[p]) = 1
                     /\ sent[p][1].html = Some(DecodeLatin1(c.bytes))
                     /\ sent[p][1].text = Some(DecodeLatin1(c.bytes))

\* C7 (as claimed): after both gates, content that cannot be parsed, or whose
\* body cannot be extracted, ends the invocation with an error value returned
\* to the caller, and nothing is sent.
C7_UnparseableIsError ==
    \A p \in Procs :
        (/\ pc[p] = "done"
         /\ PassedBothGates(p)
         /\ \/ ~sns_message[p].content.parse_ok
            \/ /\ Len(sns_message[p].content.subparts) >= 2
               /\ ~sns_message[p].content.subparts[2].body_ok) =>
            /\ result[p].tag = "Err"
            /\ sent[p] = <<>>

\* C8: a Message whose spam or virus verdict (or its status) is missing makes
\* the handler return an error before any gate runs: it is never taken as a
\* notification, nothing is sent and no response is produced.
C8_MissingVerdictIsError ==
    \A p \in Procs :
        (/\ message[p] # NoMsg
         /\ message[p].spam_status = Missing \/ message[p].virus_status = Missing) =>
            /\ pc[p] = "done"
            /\ path[p] = <<"Invoke">>
            /\ sns_message[p] = NoMsg
            /\ result[p] = [tag |-> "Err", status_code |-> 0, body |-> <<"serde_json::Error">>]
            /\ sent[p] = <<>>

\* C8 witness: a Message with no spam verdict and a PASS virus verdict has been
\* answered with an error.
C8_Witness ==
    \E p \in Procs :
        /\ message[p] # NoMsg
        /\ message[p].spam_status = Missing
        /\ message[p].virus_status = "PASS"
        /\ pc[p] = "done"
        /\ result[p].tag = "Err"

\* C9: an invocation sends at most once; it has sent exactly once, the request
\* it built, as soon as it waits for the provider or has ended after building
\* a request, and it sends only after both gates; the provider's answer is
\* the result: Ok 200 with the message id, or the error.
C9_SendOnceSurfaced ==
    \A p \in Procs :
        /\ Len(sent[p]) <= 1
        /\ (pc[p] = "await" \/ (pc[p] = "done" /\ Took(p, "BuildRequest"))) =>
              /\ Len(sent[p]) = 1
              /\ sent[p][1] = ses_email_message[p]
        /\ Len(sent[p]) = 1 =>
              /\ Took(p, "BuildRequest")
              /\ PassedBothGates(p)
        /\ (pc[p] = "done" /\ Len(sent[p]) = 1) =>
              result[p] = IF ses_response[p].ok
                          THEN [tag |-> "Ok", status_code |-> 200,
                                body |-> <<"json", ses_response[p].message_id>>]
                          ELSE [tag |-> "Err", status_code |-> 0,
                                body |-> <<ses_response[p].message_id>>]

\* C9 witness: the provider refused the one send and the invocation ended with
\* that error.
C9_Witness ==
    \E p \in Procs :
        /\ pc[p] = "done"
        /\ Len(sent[p]) = 1
        /\ ~ses_response[p].ok
        /\ result[p].tag = "Err"

C11_CcCarriedOver ==
    \A p \in Procs :
        Len(sent[p]) = 1 => sent[p][1].cc_addresses = sns_message[p].cc

\* The black_list string a constructor call was given, and what it built.
Constructed(p) ==
    /\ pc[p] = "done"
    /\ path[p] \in {<<"New">>, <<"NewFromEnv">>}
    /\ result[p] = NoResult

BlackListInput(p) ==
    IF path[p] = <<"New">> THEN new_args.black_list
    ELSE IF env.BLACK_LIST = None THEN <<>> ELSE env.BLACK_LIST[1]

CountOf(s, c) == Cardinality({i \in 1..Len(s) : s[i] = c})

RECURSIVE JoinWith(_, _)
JoinWith(list, sep) ==
    IF Len(list) = 0 THEN <<>>
    ELSE IF Len(list) = 1 THEN list[1]
    ELSE list[1] \o <<sep>> \o JoinWith(Tail(list), sep)

RECURSIVE DropChar(_, _)
DropChar(s, c) ==
    IF s = <<>> THEN <<>>
    ELSE IF Head(s) = c THEN DropChar(Tail(s), c)
    ELSE <<Head(s)>> \o DropChar(Tail(s), c)

\* C12: new and new_from_env build the blacklist as Some(list), where the
\* list has one rule per comma of the input string plus one, no rule has a
\* space or a comma, and the rules joined by commas in their order are the
\* input with its spaces removed (so the pieces keep their order and lose
\* only spaces); from_email and to_email are stored unchanged.
C12_BlackListFromString ==
    \A p \in Procs :
        Constructed(p) =>
            LET b == BlackListInput(p)
                cfg == email_config[p]
            IN /\ cfg.black_list # None
               /\ Len(cfg.black_list) = 1
               /\ Len(cfg.black_list[1]) = CountOf(b, ",") + 1
               /\ \A i \in 1..Len(cfg.black_list[1]) :
                     /\ CountOf(cfg.black_list[1][i], " ") = 0
                     /\ CountOf(cfg.black_list[1][i], ",") = 0
               /\ JoinWith(cfg.black_list[1], ",") = DropChar(b, " ")
               /\ cfg.from_email = IF path[p] = <<"New">> THEN new_args.from_email
                                    ELSE env.FROM_EMAIL[1]
               /\ cfg.to_email = IF path[p] = <<"New">> THEN new_args.to_email
                                  ELSE env.TO_EMAIL[1]

\* C12 witness: new was given a string with a comma and an inner space, as in
\* "b ,a", and built two rules, the first with the space removed.
C12_Witness ==
    \E p \in Procs :
        /\ Constructed(p)
        /\ path[p] = <<"New">>
        /\ new_args.black_list = <<" ", "b", ",">>
        /\ email_config[p].black_list = Some(<< <<"b">>, <<>> >>)
        /\ email_config[p].from_email = "hello@nyah.dev"

====
